---- MODULE Spec2Model ----
(***************************************************************************)
(* Model of polymarket-rosetta: the AWS Lambda proxy (lambda_function.py)  *)
(* and the identifier lookup CLI (polymarket_lookup.py).                   *)
(*                                                                         *)
(* Both components are stateless: every invocation starts from its inputs  *)
(* (the gateway event or the command-line identifier) and from what the    *)
(* upstream API does during the one GET it issues.  An action is one       *)
(* invocation of a handler; the variables record the invocation's inputs   *)
(* and everything it produced.                                             *)
(***************************************************************************)
EXTENDS Integers, Sequences, FiniteSets, TLC

VARIABLES
    op,        \* name of the handler invoked last ("none" before the first)
    arg,       \* its input: the gateway event, or the identifier string
    net,       \* what the upstream did during the invocation (NoNet if not called)
    calls,     \* sequence of URLs the invocation issued a GET for
    ret,       \* lambda_handler: response returned / exception escaped;
               \* CLI command: normal return / exception escaped
    fetched,   \* CLI: what the resolver handed back to the command
    out,       \* CLI: lines written to stdout
    err        \* CLI: lines written to stderr

vars == <<op, arg, net, calls, ret, fetched, out, err>>

----------------------------------------------------------------------------
(* Bounds *)

\* longest upstream response body of the proxy, in bytes
MaxBody == 2

\* most markets in the market collection of an event
MaxMarkets == 2

\* most entities in an array the upstream answers a lookup with
MaxResults == 2

----------------------------------------------------------------------------
(* Python values *)

\* Python None
None == [t |-> "None"]

\* a Python str whose text is a literal of the program or of a library
Lit(s) == [t |-> "str", s |-> s]

\* a Python str obtained by decoding bytes: its sequence of code points
Decoded(cp) == [t |-> "ustr", cp |-> cp]

\* a Python dict: a function from its keys to values
Dict(d) == [t |-> "dict", d |-> d]

EmptyDict == Dict([k \in {} |-> None])

\* dict.get(key, default); on anything that is not a dict the attribute
\* lookup .get itself fails (AttributeError)
HasGet(v) == v.t = "dict"

Get(v, key, default) == IF key \in DOMAIN v.d THEN v.d[key] ELSE default

\* truthiness of the values queryStringParameters can hold
Truthy(v) ==
    CASE v.t = "None" -> FALSE
      [] v.t = "dict" -> DOMAIN v.d # {}
      [] v.t = "str"  -> v.s # ""
      [] OTHER        -> TRUE

----------------------------------------------------------------------------
(* UTF-8, as bytes.decode('utf-8') (strict) applies it.  The byte alphabet *)
(* of the model has ASCII bytes, a two-byte lead byte, a continuation byte *)
(* and a byte that is valid nowhere.                                       *)

Bytes == {65, 195, 169, 255}

RECURSIVE BoundedSeq(_, _)
BoundedSeq(S, n) ==
    IF n = 0 THEN {<<>>}
    ELSE LET shorter == BoundedSeq(S, n - 1)
         IN  shorter \cup {Append(s, x) : s \in {q \in shorter : Len(q) = n - 1}, x \in S}

Bodies == BoundedSeq(Bytes, MaxBody)

DecodeFailed == [ok |-> FALSE, cp |-> <<>>]

RECURSIVE Utf8Decode(_)
Utf8Decode(b) ==
    IF b = <<>> THEN [ok |-> TRUE, cp |-> <<>>]
    ELSE IF b[1] < 128
         THEN LET rest == Utf8Decode(Tail(b))
              IN  IF rest.ok THEN [ok |-> TRUE, cp |-> <<b[1]>> \o rest.cp]
                  ELSE DecodeFailed
    ELSE IF b[1] >= 194 /\ b[1] <= 223 /\ Len(b) >= 2 /\ b[2] >= 128 /\ b[2] <= 191
         THEN LET rest == Utf8Decode(Tail(Tail(b)))
              IN  IF rest.ok
                  THEN [ok |-> TRUE, cp |-> <<(b[1] - 192) * 64 + (b[2] - 128)>> \o rest.cp]
                  ELSE DecodeFailed
    ELSE DecodeFailed

----------------------------------------------------------------------------
(* The proxy: lambda_function.py *)

NoNet == [k |-> "none"]

\* the gateway events of the model: requestContext and queryStringParameters
\* each absent, null, or a dict of one of the shapes below
Methods == {"GET", "OPTIONS", "POST"}

HttpValues ==
    {None, EmptyDict, Dict([k \in {"method"} |-> None])}
    \cup {Dict([k \in {"method"} |-> Lit(m)]) : m \in Methods}

RequestContexts ==
    {None, EmptyDict} \cup {Dict([k \in {"http"} |-> h]) : h \in HttpValues}

Paths == {"/events/23246", "/markets?slug=x"}

QueryParams ==
    {None, EmptyDict, Dict([k \in {"other"} |-> Lit("1")])}
    \cup {Dict([k \in {"path"} |-> Lit(p)]) : p \in Paths}
    \cup {Dict([k \in {"path", "other"} |-> Lit(p)]) : p \in Paths}

Events ==
    {Dict([k \in {} |-> None])}
    \cup {Dict([k \in {"requestContext"} |-> rc]) : rc \in RequestContexts}
    \cup {Dict([k \in {"queryStringParameters"} |-> qp]) : qp \in QueryParams}
    \cup {Dict([k \in {"requestContext", "queryStringParameters"} |->
                 IF k = "requestContext" THEN rc ELSE qp]) :
              rc \in RequestContexts, qp \in QueryParams}

\* what the upstream and the network do during the one GET of an invocation
HttpErrors ==
    { [code |-> 304, reason |-> "Not Modified"],
      [code |-> 404, reason |-> "Not Found"],
      [code |-> 500, reason |-> "Internal Server Error"],
      [code |-> 503, reason |-> "Service Unavailable"] }

TimeoutPhases == {"connect", "headers", "read"}

UpstreamOutcomes ==
    {[k |-> "ok", data |-> b] : b \in Bodies}
    \cup {[k |-> "status", code |-> e.code, reason |-> e.reason] : e \in HttpErrors}
    \cup {[k |-> "refused"], [k |-> "dns"], [k |-> "reset"]}
    \cup {[k |-> "timeout", phase |-> ph] : ph \in TimeoutPhases}

\* an exception object: its class, and the attributes the handler reads
Exc(cls, code, reason, msg) ==
    [k |-> "exc", cls |-> cls, code |-> code, reason |-> reason, msg |-> msg]

\* the statement  with urllib.request.urlopen(req, timeout=10) as response:
\* data = response.read() : the bytes read, or the exception raised.
\* urllib wraps an OSError raised while connecting and sending the request in
\* URLError; what getresponse() and read() raise propagates unwrapped.
UrlopenRead(n) ==
    CASE n.k = "ok"      -> [k |-> "data", data |-> n.data]
      [] n.k = "status"  -> Exc("HTTPError", n.code, n.reason, n.reason)
      [] n.k = "refused" -> Exc("URLError", 0, "[Errno 111] Connection refused",
                                "<urlopen error [Errno 111] Connection refused>")
      [] n.k = "dns"     -> Exc("URLError", 0, "[Errno -2] Name or service not known",
                                "<urlopen error [Errno -2] Name or service not known>")
      [] n.k = "reset"   -> Exc("ConnectionResetError", 0, "",
                                "[Errno 104] Connection reset by peer")
      [] n.k = "timeout" ->
            IF n.phase = "connect"
            THEN Exc("URLError", 0, "timed out", "<urlopen error timed out>")
            ELSE Exc("TimeoutError", 0, "", "timed out")

\* exception classes that  except urllib.error.URLError  catches
IsURLError(cls) == cls \in {"URLError", "HTTPError"}

\* json.dumps({'error': msg}) for a message json.dumps copies unescaped (the
\* messages of the model hold no double quote, backslash or control character)
JsonDumpsError(msg) == Lit("{\"error\": \"" \o msg \o "\"}")

Response(status, headers, body) ==
    [kind |-> "return", statusCode |-> status, headers |-> headers, body |-> body]

Raised(cls) == [kind |-> "raise", exc |-> cls]

NoRet == [kind |-> "none"]

AllowHeaders == "Content-Type,X-Amz-Date,Authorization,X-Api-Key,X-Amz-Security-Token"

\* OptionsHeaders without the allow-list of request headers
OptionsHeadersNoAllowList ==
    ("Access-Control-Allow-Origin" :> "*")
    @@ ("Access-Control-Allow-Methods" :> "GET, OPTIONS")

OptionsHeaders ==
    ("Access-Control-Allow-Origin" :> "*")
    @@ ("Access-Control-Allow-Methods" :> "GET, OPTIONS")
    @@ ("Access-Control-Allow-Headers" :> AllowHeaders)

\* ErrorHeaders without the cross-origin header
ErrorHeadersNoCors == ("Content-Type" :> "application/json")

ErrorHeaders ==
    ("Access-Control-Allow-Origin" :> "*")
    @@ ("Content-Type" :> "application/json")

\* SuccessHeaders without the cache-control header
SuccessHeadersNoCache ==
    ("Access-Control-Allow-Origin" :> "*")
    @@ ("Content-Type" :> "application/json")

SuccessHeaders ==
    ("Access-Control-Allow-Origin" :> "*")
    @@ ("Content-Type" :> "application/json")
    @@ ("Cache-Control" :> "public, max-age=300")

OptionsResponse == Response(200, OptionsHeaders, Lit(""))

MissingPathResponse ==
    Response(400, ErrorHeaders, JsonDumpsError("Missing required parameter: path"))

SuccessResponse(text) == Response(200, SuccessHeaders, text)

HTTPErrorResponse(e) ==
    Response(e.code, ErrorHeaders, JsonDumpsError("API request failed: " \o e.reason))

URLErrorResponse(e) ==
    Response(500, ErrorHeaders, JsonDumpsError("Network error: " \o e.reason))

InternalErrorResponse(e) ==
    Response(500, ErrorHeaders, JsonDumpsError("Internal server error: " \o e.msg))

\* HandleException with the URLError clause listed first
HandleExceptionURLErrorFirst(e) ==
    IF IsURLError(e.cls) THEN URLErrorResponse(e)
    ELSE IF e.cls = "HTTPError" THEN HTTPErrorResponse(e)
    ELSE InternalErrorResponse(e)

\* the three except clauses, in the order the handler lists them
HandleException(e) ==
    IF e.cls = "HTTPError" THEN HTTPErrorResponse(e)
    ELSE IF IsURLError(e.cls) THEN URLErrorResponse(e)
    ELSE InternalErrorResponse(e)

\* event.get('requestContext', {}).get('http', {}).get('method'): the value,
\* or the AttributeError of calling .get on something that is not a dict
RequestMethod(event) ==
    LET rc == Get(event, "requestContext", EmptyDict)
    IN  IF ~HasGet(rc) THEN [raised |-> TRUE, v |-> None]
        ELSE LET http == Get(rc, "http", EmptyDict)
             IN  IF ~HasGet(http) THEN [raised |-> TRUE, v |-> None]
                 ELSE [raised |-> FALSE, v |-> Get(http, "method", None)]

PROXY_BASE_URL == "https://gamma-api.polymarket.com"

\* the body of the try block once the path is known
ProxyFetch(path, n) ==
    LET got == UrlopenRead(n)
    IN  IF got.k = "exc" THEN HandleException(got)
        ELSE LET text == Utf8Decode(got.data)
             IN  IF text.ok THEN SuccessResponse(Decoded(text.cp))
                 ELSE HandleException(
                        Exc("UnicodeDecodeError", 0, "",
                            "'utf-8' codec can't decode byte: invalid start byte"))

\* lambda_handler(event, context) when the upstream behaves as n
lambda_handler(event, n) ==
    LET m == RequestMethod(event)
    IN  IF m.raised
        THEN [ret |-> Raised("AttributeError"), calls |-> <<>>, net |-> NoNet]
        ELSE IF m.v = Lit("OPTIONS")
        THEN [ret |-> OptionsResponse, calls |-> <<>>, net |-> NoNet]
        ELSE LET query_params == Get(event, "queryStringParameters", EmptyDict)
             IN  IF ~Truthy(query_params) \/ "path" \notin DOMAIN query_params.d
                 THEN [ret |-> MissingPathResponse, calls |-> <<>>, net |-> NoNet]
                 ELSE LET path == query_params.d["path"].s
                      IN  [ret   |-> ProxyFetch(path, n),
                           calls |-> <<PROXY_BASE_URL \o path>>,
                           net   |-> n]

NoValue == [t |-> "unset"]

\* One invocation of the handler.  Invocations share no state, so a
\* behaviour is one invocation: of the proxy, or of one command of the tool.
LambdaHandler ==
    \E event \in Events, n \in UpstreamOutcomes :
        LET r == lambda_handler(event, n)
        IN  /\ op = "none"
            /\ op' = "lambda_handler"
            /\ arg' = event
            /\ net' = r.net
            /\ calls' = r.calls
            /\ ret' = r.ret
            /\ fetched' = NoValue
            /\ out' = <<>>
            /\ err' = <<>>

----------------------------------------------------------------------------
(* More Python values, for the lookup tool: polymarket_lookup.py *)

StrV(s) == [t |-> "str", s |-> s]

BoolV(b) == [t |-> "bool", b |-> b]

IntV(n) == [t |-> "int", n |-> n]

ListV(v) == [t |-> "list", v |-> v]

\* marks a key a dict does not have, when an entity of the model is built
Absent == [t |-> "absent"]

EmptyFn == [k \in {} |-> None]

\* bool(v)
IsTrue(v) ==
    CASE v.t = "None" -> FALSE
      [] v.t = "bool" -> v.b
      [] v.t = "int"  -> v.n # 0
      [] v.t = "str"  -> v.s # ""
      [] v.t = "list" -> v.v # <<>>
      [] v.t = "dict" -> DOMAIN v.d # {}

\* the character at position i of a string, "" past its end
Ch(s, i) == IF i >= 1 /\ i <= Len(s) THEN SubSeq(s, i, i) ELSE ""

Digits == "0123456789"

IsDigit(c) == c \in {"0", "1", "2", "3", "4", "5", "6", "7", "8", "9"}

DigitVal(c) == CHOOSE d \in 0..9 : Ch(Digits, d + 1) = c

RECURSIVE NatToStr(_)
NatToStr(n) == IF n < 10 THEN Ch(Digits, n + 1)
               ELSE NatToStr(n \div 10) \o Ch(Digits, (n % 10) + 1)

IntToStr(n) == IF n < 0 THEN "-" \o NatToStr(-n) ELSE NatToStr(n)

\* repr() and str() of the values the tool formats into its lines (strings
\* of the model hold no quote, backslash or non-printable character)
RECURSIVE PyRepr(_), JoinRepr(_)
PyRepr(v) ==
    CASE v.t = "None" -> "None"
      [] v.t = "bool" -> IF v.b THEN "True" ELSE "False"
      [] v.t = "int"  -> IntToStr(v.n)
      [] v.t = "str"  -> "'" \o v.s \o "'"
      [] v.t = "list" -> "[" \o JoinRepr(v.v) \o "]"

JoinRepr(seq) ==
    IF seq = <<>> THEN ""
    ELSE IF Len(seq) = 1 THEN PyRepr(seq[1])
    ELSE PyRepr(seq[1]) \o ", " \o JoinRepr(Tail(seq))

\* what an f-string puts for {v}
PyStr(v) == IF v.t = "str" THEN v.s ELSE PyRepr(v)

----------------------------------------------------------------------------
(* json.loads on a str.  The raw strings of the model hold arrays, string  *)
(* literals without escapes, integers and the three literal names; objects,*)
(* escapes, fractions and exponents do not occur in them.                  *)

ParseFail == [ok |-> FALSE, v |-> None, i |-> 0]

Parsed(v, i) == [ok |-> TRUE, v |-> v, i |-> i]

RECURSIVE SkipWs(_, _)
SkipWs(s, i) ==
    IF Ch(s, i) \in {" ", "\t", "\n", "\r"} THEN SkipWs(s, i + 1) ELSE i

\* position of the quote that closes a string literal opened before i, 0 if none
RECURSIVE StrEnd(_, _)
StrEnd(s, i) ==
    IF i > Len(s) THEN 0
    ELSE IF Ch(s, i) = "\"" THEN i
    ELSE IF Ch(s, i) = "\\" THEN 0
    ELSE StrEnd(s, i + 1)

\* first position at or after i that holds no digit
RECURSIVE DigitsEnd(_, _)
DigitsEnd(s, i) == IF IsDigit(Ch(s, i)) THEN DigitsEnd(s, i + 1) ELSE i

RECURSIVE DigitsVal(_, _)
DigitsVal(s, acc) ==
    IF s = "" THEN acc ELSE DigitsVal(Tail(s), acc * 10 + DigitVal(Head(s)))

\* an integer literal starting at i: 0, or a non-zero digit and more digits
ParseNat(s, i) ==
    IF ~IsDigit(Ch(s, i)) THEN ParseFail
    ELSE IF Ch(s, i) = "0" THEN Parsed(IntV(0), i + 1)
    ELSE LET e == DigitsEnd(s, i)
         IN  Parsed(IntV(DigitsVal(SubSeq(s, i, e - 1), 0)), e)

\* the word w stands at position i of s
StartsWith(s, i, w) ==
    i + Len(w) - 1 <= Len(s) /\ SubSeq(s, i, i + Len(w) - 1) = w

RECURSIVE ParseValue(_, _), ParseElems(_, _, _)
\* the JSON value that starts at position i (after whitespace)
ParseValue(s, i0) ==
    LET i == SkipWs(s, i0)
        c == Ch(s, i)
    IN  IF c = "\""
        THEN LET e == StrEnd(s, i + 1)
             IN  IF e = 0 THEN ParseFail ELSE Parsed(StrV(SubSeq(s, i + 1, e - 1)), e + 1)
        ELSE IF c = "["
        THEN LET j == SkipWs(s, i + 1)
             IN  IF Ch(s, j) = "]" THEN Parsed(ListV(<<>>), j + 1)
                 ELSE ParseElems(s, j, <<>>)
        ELSE IF c = "-"
        THEN LET r == ParseNat(s, i + 1)
             IN  IF r.ok THEN Parsed(IntV(-r.v.n), r.i) ELSE ParseFail
        ELSE IF IsDigit(c) THEN ParseNat(s, i)
        ELSE IF StartsWith(s, i, "null") THEN Parsed(None, i + 4)
        ELSE IF StartsWith(s, i, "true") THEN Parsed(BoolV(TRUE), i + 4)
        ELSE IF StartsWith(s, i, "false") THEN Parsed(BoolV(FALSE), i + 5)
        ELSE ParseFail

\* the elements of an array after its '[' and the elements in acc
ParseElems(s, i, acc) ==
    LET r == ParseValue(s, i)
    IN  IF ~r.ok THEN ParseFail
        ELSE LET j == SkipWs(s, r.i)
             IN  IF Ch(s, j) = "]" THEN Parsed(ListV(Append(acc, r.v)), j + 1)
                 ELSE IF Ch(s, j) = "," THEN ParseElems(s, j + 1, Append(acc, r.v))
                 ELSE ParseFail

\* json.loads(s) for a str s: the value, or JSONDecodeError (ok = FALSE)
JsonLoads(s) ==
    LET r == ParseValue(s, 1)
    IN  IF r.ok /\ SkipWs(s, r.i) = Len(s) + 1 THEN r ELSE ParseFail

----------------------------------------------------------------------------
(* The resolvers: one GET each through httpx *)

BASE_URL == "https://gamma-api.polymarket.com"

\* except httpx.HTTPError: the transport errors and HTTPStatusError
IsHttpxHTTPError(cls) ==
    cls \in {"ConnectError", "ConnectTimeout", "ReadTimeout", "HTTPStatusError"}

\* httpx.get(url, timeout=10): the response, or the transport exception
HttpxGet(n) ==
    CASE n.k = "response" -> n
      [] n.k = "refused"  -> Exc("ConnectError", 0, "", "[Errno 111] Connection refused")
      [] n.k = "timeout"  ->
            IF n.phase = "connect"
            THEN Exc("ConnectTimeout", 0, "", "timed out")
            ELSE Exc("ReadTimeout", 0, "", "The read operation timed out")

StatusErrorType(code) ==
    CASE code \div 100 = 1 -> "Informational response"
      [] code \div 100 = 3 -> "Redirect response"
      [] code \div 100 = 4 -> "Client error"
      [] code \div 100 = 5 -> "Server error"
      [] OTHER             -> "Invalid status code"

\* RaiseForStatus raising for the 4xx and 5xx statuses only
RaiseForStatusErrorsOnly(resp, url) ==
    IF resp.status < 400 THEN [k |-> "ok"]
    ELSE Exc("HTTPStatusError", resp.status, resp.phrase,
             StatusErrorType(resp.status) \o " '" \o IntToStr(resp.status) \o " "
                 \o resp.phrase \o "' for url '" \o url \o "'")

\* response.raise_for_status(): nothing for a 2xx status, HTTPStatusError
\* for every other one
RaiseForStatus(resp, url) ==
    IF resp.status \div 100 = 2 THEN [k |-> "ok"]
    ELSE Exc("HTTPStatusError", resp.status, resp.phrase,
             StatusErrorType(resp.status) \o " '" \o IntToStr(resp.status) \o " "
                 \o resp.phrase \o "' for url '" \o url \o "'")

\* response.json(): the parsed document, or JSONDecodeError
ResponseJson(resp) ==
    IF resp.body.k = "json" THEN [k |-> "value", v |-> resp.body.doc]
    ELSE Exc("JSONDecodeError", 0, "", "Expecting value: line 1 column 1 (char 0)")

FetchReturn(url, v, errLines) ==
    [kind |-> "return", v |-> v, url |-> url, err |-> errLines]

FetchRaise(url, cls) ==
    [kind |-> "raise", exc |-> cls, v |-> None, url |-> url, err |-> <<>>]

\* click.echo(f"Error fetching data: {e}", err=True); return None
FetchFailed(url, e) ==
    FetchReturn(url, None, <<"Error fetching data: " \o e.msg>>)

\* the try block shared by the seven resolvers, up to data = response.json()
FetchJson(url, n) ==
    LET response == HttpxGet(n)
    IN  IF response.k = "exc" THEN response
        ELSE LET st == RaiseForStatus(response, url)
             IN  IF st.k = "exc" THEN st ELSE ResponseJson(response)

\* what a resolver does with an exception of the try block
FetchExcept(url, e) ==
    IF IsHttpxHTTPError(e.cls) THEN FetchFailed(url, e) ELSE FetchRaise(url, e.cls)

\* isinstance(data, list) and len(data) > 0: data[0], else None
FirstOrNone(data) ==
    IF data.t = "list" /\ Len(data.v) > 0 THEN data.v[1] ELSE None

\* a resolver of an array-shaped endpoint
FetchFirst(url, n) ==
    LET data == FetchJson(url, n)
    IN  IF data.k = "exc" THEN FetchExcept(url, data)
        ELSE FetchReturn(url, FirstOrNone(data.v), <<>>)

\* a resolver of a single-object endpoint: return data
FetchObject(url, n) ==
    LET data == FetchJson(url, n)
    IN  IF data.k = "exc" THEN FetchExcept(url, data)
        ELSE FetchReturn(url, data.v, <<>>)

fetch_event_by_slug(slug, n) == FetchFirst(BASE_URL \o "/events?slug=" \o slug, n)

fetch_event_by_id(event_id, n) == FetchObject(BASE_URL \o "/events/" \o event_id, n)

fetch_market_by_slug(slug, n) == FetchFirst(BASE_URL \o "/markets?slug=" \o slug, n)

fetch_market_by_id(market_id, n) == FetchObject(BASE_URL \o "/markets/" \o market_id, n)

\* fetch_market_by_token_id with the field name as the query parameter
fetch_market_by_token_id_field_name(token_id, n) ==
    FetchFirst(BASE_URL \o "/markets?clobTokenIds=" \o token_id, n)

fetch_market_by_token_id(token_id, n) ==
    FetchFirst(BASE_URL \o "/markets?clob_token_ids=" \o token_id, n)

fetch_market_by_question_id(question_id, n) ==
    FetchFirst(BASE_URL \o "/markets?question_ids=" \o question_id, n)

fetch_market_by_condition_id(condition_id, n) ==
    FetchFirst(BASE_URL \o "/markets?condition_ids=" \o condition_id, n)

----------------------------------------------------------------------------
(* The formatters.  A line is the string one click.echo call writes; the   *)
(* box-drawing characters of the source are written |- and +- here.         *)

Rule == "======================================================================"

Shown(lines) == [out |-> lines, exc |-> ""]

Failed(lines, cls) == [out |-> lines, exc |-> cls]

\* len() is defined on the value
HasLen(v) == v.t \in {"str", "list", "dict"}

PyLen(v) ==
    CASE v.t = "str"  -> Len(v.s)
      [] v.t = "list" -> Len(v.v)
      [] v.t = "dict" -> Cardinality(DOMAIN v.d)

\* v[i] for a str or a list, i counted from 0
Index(v, i) == IF v.t = "str" THEN StrV(Ch(v.s, i + 1)) ELSE v.v[i + 1]

\* a variant that prints the raw string for a list of fewer than two
\* elements
TokenIdLinesRaw(market, indent) ==
    LET token_ids_str == Get(market, "clobTokenIds", StrV("[]"))
    IN  IF token_ids_str.t # "str" THEN Failed(<<>>, "TypeError")
        ELSE LET r == JsonLoads(token_ids_str.s)
             IN  IF ~r.ok
                 THEN Shown(<<indent \o "+- Token IDs: " \o token_ids_str.s>>)
                 ELSE IF ~HasLen(r.v) THEN Failed(<<>>, "TypeError")
                 ELSE IF PyLen(r.v) >= 2
                 THEN Shown(<<indent \o "|- Token ID (Yes): " \o PyStr(Index(r.v, 0)),
                              indent \o "+- Token ID (No): " \o PyStr(Index(r.v, 1))>>)
                 ELSE Shown(<<indent \o "+- Token IDs: " \o token_ids_str.s>>)

\* the lines for clobTokenIds; indent is "   " in the event report and ""
\* in the market report
TokenIdLines(market, indent) ==
    LET token_ids_str == Get(market, "clobTokenIds", StrV("[]"))
    IN  IF token_ids_str.t # "str" THEN Failed(<<>>, "TypeError")
        ELSE LET r == JsonLoads(token_ids_str.s)
             IN  IF ~r.ok
                 THEN Shown(<<indent \o "+- Token IDs: " \o token_ids_str.s>>)
                 ELSE IF ~HasLen(r.v) THEN Failed(<<>>, "TypeError")
                 ELSE IF PyLen(r.v) >= 2
                 THEN Shown(<<indent \o "|- Token ID (Yes): " \o PyStr(Index(r.v, 0)),
                              indent \o "+- Token ID (No): " \o PyStr(Index(r.v, 1))>>)
                 ELSE Shown(<<indent \o "+- Token IDs: " \o PyStr(r.v)>>)

\* the block of one active market in the event report
EventMarketBlock(idx, market) ==
    LET ids == <<IntToStr(idx) \o ". "
                     \o PyStr(Get(market, "groupItemTitle", StrV("Unknown Candidate"))),
                 "   |- Market ID: " \o PyStr(Get(market, "id", StrV("N/A"))),
                 "   |- Market Slug: " \o PyStr(Get(market, "slug", StrV("N/A"))),
                 "   |- Question: " \o PyStr(Get(market, "question", StrV("N/A"))),
                 "   |- Condition ID: " \o PyStr(Get(market, "conditionId", StrV("N/A"))),
                 "   |- Question ID: " \o PyStr(Get(market, "questionID", StrV("N/A")))>>
        tok == TokenIdLines(market, "   ")
    IN  IF tok.exc # "" THEN Failed(ids \o tok.out, tok.exc)
        ELSE Shown(ids \o tok.out \o <<"">>)

\* for idx, market in enumerate(active_markets, 1)
RECURSIVE EventMarketBlocks(_, _)
EventMarketBlocks(active_markets, idx) ==
    IF active_markets = <<>> THEN Shown(<<>>)
    ELSE LET b == EventMarketBlock(idx, Head(active_markets))
         IN  IF b.exc # "" THEN b
             ELSE LET rest == EventMarketBlocks(Tail(active_markets), idx + 1)
                  IN  [out |-> b.out \o rest.out, exc |-> rest.exc]

\* [m for m in markets if m.get('active', False)]
ActiveMarkets(markets) ==
    SelectSeq(markets, LAMBDA m : IsTrue(Get(m, "active", BoolV(FALSE))))

display_event_info(event) ==
    LET banner == <<"\n" \o Rule, "EVENT INFORMATION", Rule>>
    IN  IF ~HasGet(event) THEN Failed(banner, "AttributeError")
        ELSE
        LET head == banner \o
                <<"|- Event ID: " \o PyStr(Get(event, "id", StrV("N/A"))),
                  "|- Event Slug: " \o PyStr(Get(event, "slug", StrV("N/A"))),
                  "|- Event Title: " \o PyStr(Get(event, "title", StrV("N/A"))),
                  "|- NegRisk Market ID: " \o PyStr(Get(event, "negRiskMarketID", StrV("N/A"))),
                  "+- Is NegRisk: " \o PyStr(Get(event, "negRisk", BoolV(FALSE)))>>
            markets == Get(event, "markets", ListV(<<>>))
        IN  IF markets.t # "list" THEN Failed(head, "TypeError")
            ELSE IF \E i \in 1..Len(markets.v) : ~HasGet(markets.v[i])
            THEN Failed(head, "AttributeError")
            ELSE
            LET active_markets == ActiveMarkets(markets.v)
                counts == <<"\n" \o Rule,
                            "MARKETS IN THIS EVENT (" \o IntToStr(Len(active_markets))
                                \o " active, " \o IntToStr(Len(markets.v)) \o " total)",
                            Rule \o "\n">>
                blocks == EventMarketBlocks(active_markets, 1)
            IN  [out |-> head \o counts \o blocks.out, exc |-> blocks.exc]

\* the outcome and price lines of the market report
OutcomePriceLines(market) ==
    LET outcomes_str == Get(market, "outcomes", StrV("[]"))
        prices_str == Get(market, "outcomePrices", StrV("[]"))
        raw == Shown(<<"|- Outcomes: " \o PyStr(outcomes_str),
                       "+- Prices: " \o PyStr(prices_str)>>)
    IN  IF outcomes_str.t # "str" THEN Failed(<<>>, "TypeError")
        ELSE LET o == JsonLoads(outcomes_str.s)
             IN  IF ~o.ok THEN raw
                 ELSE IF prices_str.t # "str" THEN Failed(<<>>, "TypeError")
                 ELSE LET p == JsonLoads(prices_str.s)
                      IN  IF ~p.ok THEN raw
                          ELSE IF ~HasLen(o.v) THEN Failed(<<>>, "TypeError")
                          ELSE IF PyLen(o.v) >= 2 /\ ~HasLen(p.v) THEN Failed(<<>>, "TypeError")
                          ELSE IF PyLen(o.v) >= 2 /\ PyLen(p.v) >= 2
                          THEN Shown(<<"|- " \o PyStr(Index(o.v, 0)) \o " Price: "
                                           \o PyStr(Index(p.v, 0)),
                                       "+- " \o PyStr(Index(o.v, 1)) \o " Price: "
                                           \o PyStr(Index(p.v, 1))>>)
                          ELSE Shown(<<"|- Outcomes: " \o PyStr(o.v),
                                       "+- Prices: " \o PyStr(p.v)>>)

\* the ASSOCIATED EVENT section of the market report (events is absent or a
\* list in the entities of the model)
AssociatedEventLines(market) ==
    LET events == Get(market, "events", ListV(<<>>))
    IN  IF ~IsTrue(events) THEN Shown(<<>>)
        ELSE LET title == <<"\n" \o Rule, "ASSOCIATED EVENT", Rule>>
                 event == Index(events, 0)
             IN  IF ~HasGet(event) THEN Failed(title, "AttributeError")
                 ELSE Shown(title \o
                        <<"|- Event ID: " \o PyStr(Get(event, "id", StrV("N/A"))),
                          "|- Event Slug: " \o PyStr(Get(event, "slug", StrV("N/A"))),
                          "+- Event Title: " \o PyStr(Get(event, "title", StrV("N/A")))>>)

display_market_info(market) ==
    LET banner == <<"\n" \o Rule, "MARKET INFORMATION", Rule>>
    IN  IF ~HasGet(market) THEN Failed(banner, "AttributeError")
        ELSE
        LET head == banner \o
                <<"|- Market ID: " \o PyStr(Get(market, "id", StrV("N/A"))),
                  "|- Market Slug: " \o PyStr(Get(market, "slug", StrV("N/A"))),
                  "|- Question: " \o PyStr(Get(market, "question", StrV("N/A"))),
                  "|- Condition ID: " \o PyStr(Get(market, "conditionId", StrV("N/A"))),
                  "|- Question ID: " \o PyStr(Get(market, "questionID", StrV("N/A"))),
                  "|- NegRisk Market ID: " \o PyStr(Get(market, "negRiskMarketID", StrV("N/A"))),
                  "+- Is NegRisk: " \o PyStr(Get(market, "negRisk", BoolV(FALSE))),
                  "\n" \o Rule, "TOKEN IDS", Rule>>
            tok == TokenIdLines(market, "")
        IN  IF tok.exc # "" THEN Failed(head \o tok.out, tok.exc)
            ELSE
            LET status == head \o tok.out \o
                    <<"\n" \o Rule, "MARKET STATUS", Rule,
                      "|- Active: " \o PyStr(Get(market, "active", StrV("N/A"))),
                      "|- Closed: " \o PyStr(Get(market, "closed", StrV("N/A"))),
                      "|- Archived: " \o PyStr(Get(market, "archived", StrV("N/A"))),
                      "|- Start Date: " \o PyStr(Get(market, "startDate", StrV("N/A"))),
                      "+- End Date: " \o PyStr(Get(market, "endDate", StrV("N/A"))),
                      "\n" \o Rule, "MARKET METRICS", Rule,
                      "|- Volume: $" \o PyStr(Get(market, "volume", StrV("N/A"))),
                      "|- Liquidity: $" \o PyStr(Get(market, "liquidity", StrV("N/A")))>>
                prices == OutcomePriceLines(market)
            IN  IF prices.exc # "" THEN Failed(status \o prices.out, prices.exc)
                ELSE LET ev == AssociatedEventLines(market)
                     IN  [out |-> status \o prices.out \o ev.out, exc |-> ev.exc]

----------------------------------------------------------------------------
(* The commands *)

Returned == [kind |-> "return"]

SuccessBanner == <<"\n" \o Rule, "Lookup complete!", Rule>>

CommandResult(r, f, o, e) == [ret |-> r, fetched |-> f, out |-> o, err |-> e]

\* a variant that repeats the GET once after a lookup that yielded nothing
WithCallsRetry(c, urls) ==
    [ret |-> c.ret, fetched |-> c.fetched, out |-> c.out, err |-> c.err,
     calls |-> IF c.fetched = None /\ c.err # <<>> THEN urls \o urls ELSE urls]

WithCalls(c, urls) ==
    [ret |-> c.ret, fetched |-> c.fetched, out |-> c.out, err |-> c.err, calls |-> urls]

\* the TOKEN ID MATCH section of the token-id command; it runs after
\* display_market_info has decoded the same field without raising
TokenMatchLines(id, market) ==
    LET token_ids_str == Get(market, "clobTokenIds", StrV("[]"))
        r == JsonLoads(token_ids_str.s)
        generic == "+- Token ID matched this market"
    IN  <<"\n" \o Rule, "TOKEN ID MATCH", Rule,
          IF ~r.ok THEN generic
          ELSE IF PyLen(r.v) >= 2
               THEN IF StrV(id) = Index(r.v, 0)
                    THEN "+- This token represents the 'Yes' outcome"
                    ELSE IF StrV(id) = Index(r.v, 1)
                    THEN "+- This token represents the 'No' outcome"
                    ELSE generic
               ELSE generic>>

\* the formatter a command calls on the entity it resolved
Display(command, entity) ==
    IF command \in {"event_slug", "event_id"} THEN display_event_info(entity)
    ELSE display_market_info(entity)

\* what a command prints between the report and the success banner
AfterDisplay(command, id, entity) ==
    IF command = "token_id" THEN TokenMatchLines(id, entity) ELSE <<>>

\* the body shared by the commands: announce, resolve, report absence or
\* display the entity, then the success banner
Command(command, id, looking, f, notFound) ==
    WithCalls(
    IF f.kind = "raise"
    THEN CommandResult(Raised(f.exc), NoValue, <<looking>>, f.err)
    ELSE IF f.v = None
    THEN CommandResult(Returned, f.v, <<looking>>, f.err \o <<notFound>>)
    ELSE LET d == Display(command, f.v)
         IN  IF d.exc # ""
             THEN CommandResult(Raised(d.exc), f.v, <<looking>> \o d.out, f.err)
             ELSE CommandResult(Returned, f.v,
                                <<looking>> \o d.out \o AfterDisplay(command, id, f.v)
                                    \o SuccessBanner, f.err),
    <<f.url>>)

event_slug(slug, n) ==
    Command("event_slug", slug, "Looking up event: " \o slug \o "...",
            fetch_event_by_slug(slug, n), "Event not found with slug: " \o slug)

event_id(id, n) ==
    Command("event_id", id, "Looking up event ID: " \o id \o "...",
            fetch_event_by_id(id, n), "Event not found with ID: " \o id)

market_slug(slug, n) ==
    Command("market_slug", slug, "Looking up market: " \o slug \o "...",
            fetch_market_by_slug(slug, n), "Market not found with slug: " \o slug)

market_id(id, n) ==
    Command("market_id", id, "Looking up market ID: " \o id \o "...",
            fetch_market_by_id(id, n), "Market not found with ID: " \o id)

token_id(id, n) ==
    Command("token_id", id, "Looking up token ID: " \o id \o "...",
            fetch_market_by_token_id(id, n), "Market not found with token ID: " \o id)

question_id(id, n) ==
    Command("question_id", id, "Looking up question ID: " \o id \o "...",
            fetch_market_by_question_id(id, n), "Market not found with question ID: " \o id)

condition_id(id, n) ==
    Command("condition_id", id, "Looking up condition ID: " \o id \o "...",
            fetch_market_by_condition_id(id, n), "Market not found with condition ID: " \o id)

----------------------------------------------------------------------------
(* The identifiers and upstream answers of the lookup tool *)

Ids == {"111", "222", "333"}

Opt(key, v) == IF v = Absent THEN EmptyFn ELSE key :> v

TokenPair == StrV("[\"111\", \"222\"]")

\* a one-element list, a pair naming one token twice and a JSON number are
\* strings the field can hold as well
TokenValues ==
    {Absent, TokenPair, StrV("not json"), StrV("[\"111\"]"), StrV("[]"), None,
     StrV("[\"111\", \"111\"]"), StrV("5")}

OutcomeValues ==
    { <<Absent, Absent>>,
      <<StrV("[\"Yes\", \"No\"]"), StrV("[\"0.6\", \"0.4\"]")>>,
      <<StrV("[\"Yes\"]"), StrV("[\"0.6\", \"0.4\"]")>>,
      <<StrV("[\"Yes\", \"No\"]"), StrV("[]")>>,
      <<StrV("oops"), StrV("[\"0.6\", \"0.4\"]")>> }

LinkedEvent ==
    Dict(("id" :> StrV("23246")) @@ ("slug" :> StrV("nyc-mayor")) @@ ("title" :> StrV("NYC Mayor")))

EventsValues == {Absent, ListV(<<>>), ListV(<<LinkedEvent>>)}

MarketEntity(id, tok, active, title, oc, events) ==
    Dict(("id" :> StrV(id))
         @@ ("slug" :> StrV("slug-" \o id))
         @@ ("question" :> StrV("Will " \o id \o " win?"))
         @@ ("conditionId" :> StrV("0xc" \o id))
         @@ ("questionID" :> StrV("0xq" \o id))
         @@ Opt("clobTokenIds", tok)
         @@ Opt("active", active)
         @@ Opt("groupItemTitle", title)
         @@ Opt("outcomes", oc[1])
         @@ Opt("outcomePrices", oc[2])
         @@ Opt("events", events))

\* the markets a market lookup can be answered with
MarketsData ==
    {MarketEntity("551142", tok, BoolV(TRUE), Absent, oc, ev) :
        tok \in TokenValues, oc \in OutcomeValues, ev \in EventsValues}

\* a further entity of an array answer
OtherMarket ==
    MarketEntity("9", StrV("[\"8\", \"9\"]"), BoolV(TRUE), StrV("Other"),
                 <<Absent, Absent>>, Absent)

\* the markets the market collection of an event is drawn from
EventMarketPool ==
    { MarketEntity("m1", TokenPair, BoolV(TRUE), StrV("Alice"), <<Absent, Absent>>, Absent),
      MarketEntity("m2", TokenPair, BoolV(FALSE), StrV("Bob"), <<Absent, Absent>>, Absent),
      MarketEntity("m3", StrV("not json"), BoolV(TRUE), Absent, <<Absent, Absent>>, Absent),
      MarketEntity("m4", StrV("[\"111\"]"), Absent, StrV("Carol"), <<Absent, Absent>>, Absent),
      MarketEntity("m5", StrV("[\"111\"]"), BoolV(TRUE), StrV("Dave"), <<Absent, Absent>>, Absent),
      MarketEntity("m6", Absent, BoolV(TRUE), Absent, <<Absent, Absent>>, Absent),
      MarketEntity("m7", StrV("5"), BoolV(TRUE), StrV("Eve"), <<Absent, Absent>>, Absent) }

EventEntity(id, markets) ==
    Dict(("id" :> StrV(id))
         @@ ("slug" :> StrV("slug-" \o id))
         @@ ("title" :> StrV("Event " \o id))
         @@ ("negRisk" :> BoolV(TRUE))
         @@ Opt("markets", markets))

EventsData ==
    {EventEntity("23246", Absent)}
    \cup {EventEntity("23246", ListV(ms)) : ms \in BoundedSeq(EventMarketPool, MaxMarkets)}

OtherEvent == EventEntity("7", Absent)

\* an array whose first element is e, of k elements
ArrayOf(e, other, k) == ListV([i \in 1..k |-> IF i = 1 THEN e ELSE other])

\* the JSON documents an endpoint answers with: null, arrays of up to
\* MaxResults entities, and a single object
Documents(entities, other) ==
    {None, ListV(<<>>)}
    \cup entities
    \cup {ArrayOf(e, other, k) : e \in entities, k \in 1..MaxResults}

NotJson == [k |-> "text"]

Json(doc) == [k |-> "json", doc |-> doc]

Answer(status, phrase, body) ==
    [k |-> "response", status |-> status, phrase |-> phrase, body |-> body]

\* what the upstream and the network do during the GET of a lookup
LookupOutcomes(entities, other) ==
    {[k |-> "refused"]}
    \cup {[k |-> "timeout", phase |-> ph] : ph \in {"connect", "read"}}
    \cup {Answer(200, "OK", NotJson)}
    \cup {Answer(200, "OK", Json(d)) : d \in Documents(entities, other)}
    \cup {Answer(e.code, e.reason, b) :
              e \in HttpErrors, b \in {NotJson, Json(ListV(<<>>)), Json(other)}}

EventOutcomes == LookupOutcomes(EventsData, OtherEvent)

MarketOutcomes == LookupOutcomes(MarketsData, OtherMarket)

\* One action per command.  Each has the step of its run as an operator of
\* the identifier, the upstream's behaviour and the command's result.

EventSlugRun(slug, n, c) ==
    /\ op = "none"
    /\ op' = "event_slug"
    /\ arg' = StrV(slug)
    /\ net' = n
    /\ calls' = c.calls
    /\ ret' = c.ret
    /\ fetched' = c.fetched
    /\ out' = c.out
    /\ err' = c.err

EventSlug == \E slug \in Ids, n \in EventOutcomes : EventSlugRun(slug, n, event_slug(slug, n))

EventIdRun(id, n, c) ==
    /\ op = "none"
    /\ op' = "event_id"
    /\ arg' = StrV(id)
    /\ net' = n
    /\ calls' = c.calls
    /\ ret' = c.ret
    /\ fetched' = c.fetched
    /\ out' = c.out
    /\ err' = c.err

EventId == \E id \in Ids, n \in EventOutcomes : EventIdRun(id, n, event_id(id, n))

MarketSlugRun(slug, n, c) ==
    /\ op = "none"
    /\ op' = "market_slug"
    /\ arg' = StrV(slug)
    /\ net' = n
    /\ calls' = c.calls
    /\ ret' = c.ret
    /\ fetched' = c.fetched
    /\ out' = c.out
    /\ err' = c.err

MarketSlug == \E slug \in Ids, n \in MarketOutcomes : MarketSlugRun(slug, n, market_slug(slug, n))

MarketIdRun(id, n, c) ==
    /\ op = "none"
    /\ op' = "market_id"
    /\ arg' = StrV(id)
    /\ net' = n
    /\ calls' = c.calls
    /\ ret' = c.ret
    /\ fetched' = c.fetched
    /\ out' = c.out
    /\ err' = c.err

MarketId == \E id \in Ids, n \in MarketOutcomes : MarketIdRun(id, n, market_id(id, n))

TokenIdRun(id, n, c) ==
    /\ op = "none"
    /\ op' = "token_id"
    /\ arg' = StrV(id)
    /\ net' = n
    /\ calls' = c.calls
    /\ ret' = c.ret
    /\ fetched' = c.fetched
    /\ out' = c.out
    /\ err' = c.err

TokenId == \E id \in Ids, n \in MarketOutcomes : TokenIdRun(id, n, token_id(id, n))

QuestionIdRun(id, n, c) ==
    /\ op = "none"
    /\ op' = "question_id"
    /\ arg' = StrV(id)
    /\ net' = n
    /\ calls' = c.calls
    /\ ret' = c.ret
    /\ fetched' = c.fetched
    /\ out' = c.out
    /\ err' = c.err

QuestionId == \E id \in Ids, n \in MarketOutcomes : QuestionIdRun(id, n, question_id(id, n))

ConditionIdRun(id, n, c) ==
    /\ op = "none"
    /\ op' = "condition_id"
    /\ arg' = StrV(id)
    /\ net' = n
    /\ calls' = c.calls
    /\ ret' = c.ret
    /\ fetched' = c.fetched
    /\ out' = c.out
    /\ err' = c.err

ConditionId == \E id \in Ids, n \in MarketOutcomes : ConditionIdRun(id, n, condition_id(id, n))

----------------------------------------------------------------------------

Init ==
    /\ op = "none"
    /\ arg = NoValue
    /\ net = NoNet
    /\ calls = <<>>
    /\ ret = NoRet
    /\ fetched = NoValue
    /\ out = <<>>
    /\ err = <<>>

Next ==
    \/ LambdaHandler
    \/ EventSlug
    \/ EventId
    \/ MarketSlug
    \/ MarketId
    \/ TokenId
    \/ QuestionId
    \/ ConditionId

Spec == Init /\ [][Next]_vars

----------------------------------------------------------------------------
(* Properties of the proxy *)

InProxy == op = "lambda_handler"

\* the event carries requestContext.http.method = 'OPTIONS'
IsOptionsEvent(e) ==
    /\ "requestContext" \in DOMAIN e.d
    /\ e.d["requestContext"].t = "dict"
    /\ "http" \in DOMAIN e.d["requestContext"].d
    /\ e.d["requestContext"].d["http"].t = "dict"
    /\ "method" \in DOMAIN e.d["requestContext"].d["http"].d
    /\ e.d["requestContext"].d["http"].d["method"] = [t |-> "str", s |-> "OPTIONS"]

\* queryStringParameters absent, null, empty, or a dict without 'path'
PathMissing(e) ==
    \/ "queryStringParameters" \notin DOMAIN e.d
    \/ e.d["queryStringParameters"].t = "None"
    \/ /\ e.d["queryStringParameters"].t = "dict"
       /\ "path" \notin DOMAIN e.d["queryStringParameters"].d

HasHeader(r, name, value) == name \in DOMAIN r.headers /\ r.headers[name] = value

ErrorBody(r, text) == r.body = [t |-> "str", s |-> "{\"error\": \"" \o text \o "\"}"]

\* C1: an OPTIONS request gets status 200, an empty body and exactly the
\* three CORS headers, and no upstream call is made.
C1_OptionsPreflight ==
    (InProxy /\ IsOptionsEvent(arg)) =>
        /\ ret.kind = "return"
        /\ ret.statusCode = 200
        /\ ret.body = [t |-> "str", s |-> ""]
        /\ DOMAIN ret.headers = {"Access-Control-Allow-Origin",
                                 "Access-Control-Allow-Methods",
                                 "Access-Control-Allow-Headers"}
        /\ ret.headers["Access-Control-Allow-Origin"] = "*"
        /\ ret.headers["Access-Control-Allow-Methods"] = "GET, OPTIONS"
        /\ ret.headers["Access-Control-Allow-Headers"] =
               "Content-Type,X-Amz-Date,Authorization,X-Api-Key,X-Amz-Security-Token"
        /\ calls = <<>>
        /\ net = NoNet

\* an OPTIONS request that also carries a path parameter has been answered
C1_Witness ==
    /\ InProxy
    /\ IsOptionsEvent(arg)
    /\ ~PathMissing(arg)
    /\ ret.kind = "return"

\* C2: every non-OPTIONS request without a path parameter gets status 400
\* with body {"error": "Missing required parameter: path"} and no upstream
\* call.
C2_MissingPath ==
    (InProxy /\ ~IsOptionsEvent(arg) /\ PathMissing(arg)) =>
        /\ ret.kind = "return"
        /\ ret.statusCode = 400
        /\ ErrorBody(ret, "Missing required parameter: path")
        /\ calls = <<>>

\* C2 on the events whose method lookup does not raise: the 400 branch
\* itself answers as C2 says
C2_WhenMethodLookupSucceeds ==
    (InProxy /\ ~IsOptionsEvent(arg) /\ PathMissing(arg) /\ ret.kind = "return") =>
        /\ ret.statusCode = 400
        /\ ErrorBody(ret, "Missing required parameter: path")
        /\ calls = <<>>

CodePoints == {65, 233}

RECURSIVE Utf8Encode(_)
Utf8Encode(cp) ==
    IF cp = <<>> THEN <<>>
    ELSE IF cp[1] < 128 THEN <<cp[1]>> \o Utf8Encode(Tail(cp))
    ELSE <<192 + (cp[1] \div 64), 128 + (cp[1] % 64)>> \o Utf8Encode(Tail(cp))

\* the bytes are the UTF-8 encoding of some text
ValidUtf8(b) == \E cp \in BoundedSeq(CodePoints, Len(b)) : Utf8Encode(cp) = b

UpstreamSucceeded == InProxy /\ net.k = "ok"

VerbatimSuccess ==
    /\ ret.kind = "return"
    /\ ret.statusCode = 200
    /\ ret.body.t = "ustr"
    /\ Utf8Encode(ret.body.cp) = net.data
    /\ DOMAIN ret.headers = {"Access-Control-Allow-Origin", "Content-Type", "Cache-Control"}
    /\ ret.headers["Access-Control-Allow-Origin"] = "*"
    /\ ret.headers["Content-Type"] = "application/json"
    /\ ret.headers["Cache-Control"] = "public, max-age=300"

\* C3 as stated: whenever the upstream GET succeeds the response is 200 with
\* the upstream body verbatim and the three success headers.
C3_Original == UpstreamSucceeded => VerbatimSuccess

\* C3 amended: when the upstream GET succeeds and its body is valid UTF-8 the
\* response is 200 with the upstream body verbatim and the three success
\* headers; a body that is not valid UTF-8 gets the 500 'Internal server
\* error' response.
C3_SuccessVerbatim ==
    UpstreamSucceeded =>
        IF ValidUtf8(net.data) THEN VerbatimSuccess
        ELSE /\ ret.kind = "return"
             /\ ret.statusCode = 500
             /\ ErrorBody(ret, "Internal server error: 'utf-8' codec can't decode byte: invalid start byte")

\* a two-byte character was relayed
C3_Witness ==
    /\ UpstreamSucceeded
    /\ net.data = <<195, 169>>
    /\ ret.kind = "return"
    /\ ret.statusCode = 200
    /\ ret.body.t = "ustr"
    /\ ret.body.cp = <<233>>

\* C4: an upstream HTTP error is answered with the upstream's status code and
\* the body {"error": "API request failed: <reason>"}.
C4_HttpErrorPassthrough ==
    (InProxy /\ net.k = "status") =>
        /\ ret.kind = "return"
        /\ ret.statusCode = net.code
        /\ ret.statusCode \notin {200}
        /\ ErrorBody(ret, "API request failed: " \o net.reason)

\* the upstream answered 404 Not Found and the response carries both
C4_Witness ==
    /\ InProxy
    /\ net.k = "status"
    /\ net.code = 404
    /\ ret.kind = "return"
    /\ ret.statusCode = 404
    /\ ErrorBody(ret, "API request failed: Not Found")

\* C5: every response carries Access-Control-Allow-Origin: *; every failure
\* response carries Content-Type: application/json and no Cache-Control.
C5_CorsOnEveryResponse ==
    (InProxy /\ ret.kind = "return") =>
        /\ HasHeader(ret, "Access-Control-Allow-Origin", "*")
        /\ (ret.statusCode # 200 =>
               /\ HasHeader(ret, "Content-Type", "application/json")
               /\ "Cache-Control" \notin DOMAIN ret.headers)

\* a network failure was answered with a 500
C5_Witness ==
    /\ InProxy
    /\ net.k = "refused"
    /\ ret.kind = "return"
    /\ ret.statusCode = 500
    /\ ErrorBody(ret, "Network error: [Errno 111] Connection refused")

\* C6: for every input event the handler returns a response; no exception
\* escapes to the caller.
C6_AlwaysResponds ==
    InProxy => ret.kind = "return"

\* C7: a timeout of the upstream call, in whichever phase, is answered with
\* status 500 and the body {"error": "Network error: <reason>"}.
C7_TimeoutIsNetworkError ==
    (InProxy /\ net.k = "timeout") =>
        /\ ret.kind = "return"
        /\ ret.statusCode = 500
        /\ ErrorBody(ret, "Network error: timed out")

----------------------------------------------------------------------------
(* Properties of the lookup tool *)

QueryCommands == {"event_slug", "market_slug", "token_id", "question_id", "condition_id"}

PathCommands == {"event_id", "market_id"}

InCli == op \in QueryCommands \cup PathCommands

\* the word w occurs in s
Contains(s, w) == \E i \in 1..Len(s) : StartsWith(s, i, w)

EndsWith(s, w) == Len(w) <= Len(s) /\ SubSeq(s, Len(s) - Len(w) + 1, Len(s)) = w

\* the GET failed in transport or was answered with a non-2xx status
LookupFailed ==
    \/ net.k \in {"refused", "timeout"}
    \/ net.k = "response" /\ (net.status < 200 \/ net.status > 299)

\* C8: on a transport failure or a non-2xx status every resolver writes an
\* error message to the error channel and returns None; it does not raise
\* and returns no entity.
C8_FailureIsAbsence ==
    (InCli /\ LookupFailed) =>
        /\ fetched = [t |-> "None"]
        /\ ret.kind = "return"
        /\ Len(err) >= 1
        /\ StartsWith(err[1], 1, "Error fetching data: ")
        /\ Len(err[1]) > Len("Error fetching data: ")

\* a redirect status that came with an entity in its body was turned into
\* absence by the question-id resolver
C8_Witness ==
    /\ op = "question_id"
    /\ net.k = "response"
    /\ net.status = 304
    /\ net.body.k = "json"
    /\ net.body.doc.t = "dict"
    /\ fetched = [t |-> "None"]
    /\ Len(err) = 2

\* the upstream answered the lookup with status 200 and an empty array
EmptyArrayAnswer ==
    /\ net.k = "response"
    /\ net.status = 200
    /\ net.body.k = "json"
    /\ net.body.doc = [t |-> "list", v |-> <<>>]

\* the command reported absence: a 'not found' line with the identifier on
\* the error stream, no report and no success banner
ReportedNotFound ==
    /\ ret.kind = "return"
    /\ Len(err) >= 1
    /\ Contains(err[Len(err)], "not found")
    /\ EndsWith(err[Len(err)], arg.s)
    /\ Len(out) = 1
    /\ \A i \in 1..Len(out) : out[i] # "Lookup complete!"

\* C9: for every identifier kind an empty-array answer makes the resolver
\* yield absence without raising, and the command prints 'not found' with
\* the identifier and neither a report nor the success banner.
C9_EmptyArrayNotFound ==
    (InCli /\ EmptyArrayAnswer) =>
        /\ fetched = [t |-> "None"]
        /\ ReportedNotFound

\* C9 for the five query-shaped kinds alone
C9_QueryKindsOnly ==
    (op \in QueryCommands /\ EmptyArrayAnswer) =>
        /\ fetched = [t |-> "None"]
        /\ ReportedNotFound

\* the URL the claim gives for each identifier kind
ExpectedUrl(command, v) ==
    "https://gamma-api.polymarket.com" \o
    ( CASE command = "event_slug"   -> "/events?slug=" \o v
        [] command = "event_id"     -> "/events/" \o v
        [] command = "market_slug"  -> "/markets?slug=" \o v
        [] command = "market_id"    -> "/markets/" \o v
        [] command = "token_id"     -> "/markets?clob_token_ids=" \o v
        [] command = "question_id"  -> "/markets?question_ids=" \o v
        [] command = "condition_id" -> "/markets?condition_ids=" \o v )

\* the upstream answered with a 2xx status and a JSON document
JsonAnswer == net.k = "response" /\ net.status = 200 /\ net.body.k = "json"

\* C10: every resolver issues exactly the GET of its identifier kind; the
\* query-shaped kinds return the first element of a non-empty array and
\* absence otherwise, the path-embedded kinds the response object itself.
C10_UpstreamShape ==
    InCli =>
        /\ calls = <<ExpectedUrl(op, arg.s)>>
        /\ (JsonAnswer /\ op \in QueryCommands =>
               fetched = IF net.body.doc.t = "list" /\ net.body.doc.v # <<>>
                         THEN net.body.doc.v[1]
                         ELSE [t |-> "None"])
        /\ (JsonAnswer /\ op \in PathCommands => fetched = net.body.doc)

\* the token-id resolver was answered with an array of two markets and
\* returned the first
C10_Witness ==
    /\ op = "token_id"
    /\ calls = <<"https://gamma-api.polymarket.com/markets?clob_token_ids=222">>
    /\ JsonAnswer
    /\ net.body.doc.t = "list"
    /\ Len(net.body.doc.v) = 2
    /\ fetched = net.body.doc.v[1]
    /\ fetched # net.body.doc.v[2]

\* the proxy was called for a preflight or without the path parameter
NoFetchPath == InProxy /\ (IsOptionsEvent(arg) \/ PathMissing(arg))

\* the one attempt of the invocation failed: an HTTP error status, a
\* refused connection or a timeout
AttemptFailed ==
    \/ InProxy /\ net.k \in {"status", "refused", "dns", "reset", "timeout"}
    \/ InCli /\ LookupFailed

\* C11: every proxy invocation and every command makes at most one upstream
\* call and then ends, by returning or by raising; after a failed attempt
\* there is exactly the one call and no second one, and the preflight and
\* missing-parameter paths of the proxy make no call.
C11_AtMostOneCall ==
    op # "none" =>
        /\ Len(calls) <= 1
        /\ ret.kind \in {"return", "raise"}
        /\ (NoFetchPath => calls = <<>>)
        /\ (AttemptFailed => Len(calls) = 1)
        /\ (InCli => Len(calls) = 1)

\* the token-id lookup timed out, the command reported absence and ended
\* after its single GET
C11_Witness ==
    /\ op = "token_id"
    /\ net.k = "timeout"
    /\ Len(calls) = 1
    /\ ret.kind = "return"
    /\ fetched = [t |-> "None"]

\* once an invocation has ended no further step is taken: every step starts
\* from the state before the invocation
C11_NoStepAfterEnd == [][op = "none"]_vars

----------------------------------------------------------------------------
(* The formatters: what the reports show of a resolved entity *)

EventCommands == {"event_slug", "event_id"}

MarketCommands ==
    {"market_slug", "market_id", "token_id", "question_id", "condition_id"}

\* the command resolved an entity and called its formatter on it
EventResolved == op \in EventCommands /\ fetched.t = "dict"

MarketResolved == op \in MarketCommands /\ fetched.t = "dict"

\* the line l was printed
HasLine(l) == \E i \in 1..Len(out) : out[i] = l

\* the market collection of the resolved event
MarketsOf(event) ==
    IF "markets" \in DOMAIN event.d THEN event.d["markets"].v ELSE <<>>

\* the active flag of the market is set
IsActive(m) == "active" \in DOMAIN m.d /\ m.d["active"] = [t |-> "bool", b |-> TRUE]

FlaggedActive(event) == SelectSeq(MarketsOf(event), IsActive)

\* the markets the formatter of the command renders, and the indentation
\* of their lines
RenderedMarkets == IF EventResolved THEN FlaggedActive(fetched) ELSE <<fetched>>

Indent == IF EventResolved THEN "   " ELSE ""

\* the field k of the market holds a string
HoldsString(m, k) == k \in DOMAIN m.d /\ m.d[k].t = "str"

\* the field k holds a string that json.loads rejects
FailsToDecode(m, k) == HoldsString(m, k) /\ ~JsonLoads(m.d[k].s).ok

\* the field k holds a string that decodes to a list
DecodesToList(m, k) ==
    /\ HoldsString(m, k)
    /\ JsonLoads(m.d[k].s).ok
    /\ JsonLoads(m.d[k].s).v.t = "list"

\* the list the field k decodes to
DecodedList(m, k) == JsonLoads(m.d[k].s).v.v

\* the token-identifier field of m is shown as the claim C12 says
TokenFieldShown(m) ==
    /\ (DecodesToList(m, "clobTokenIds") /\ Len(DecodedList(m, "clobTokenIds")) >= 2 =>
           /\ HasLine(Indent \o "|- Token ID (Yes): "
                          \o DecodedList(m, "clobTokenIds")[1].s)
           /\ HasLine(Indent \o "+- Token ID (No): "
                          \o DecodedList(m, "clobTokenIds")[2].s))
    /\ (FailsToDecode(m, "clobTokenIds") =>
           HasLine(Indent \o "+- Token IDs: " \o m.d["clobTokenIds"].s))

\* C12: whatever the token-identifier field of a market holds,
\* display_event_info and display_market_info complete without raising; a
\* string that decodes to a list of two or more elements is shown with
\* position 0 labelled 'Yes' and position 1 labelled 'No', a string that
\* fails to decode is shown as the raw string.  (The token field is the only
\* field of the entities of the model on which a formatter can raise.)
C12_TokenFieldTolerated ==
    (EventResolved \/ MarketResolved) =>
        /\ ret.kind = "return"
        /\ \A i \in 1..Len(RenderedMarkets) : TokenFieldShown(RenderedMarkets[i])

\* the token-identifier field is null, or a string that decodes to a value
\* without a length
TokenFieldUnsized(m) ==
    /\ "clobTokenIds" \in DOMAIN m.d
    /\ ~FailsToDecode(m, "clobTokenIds")
    /\ ~DecodesToList(m, "clobTokenIds")

\* C12 for the markets whose field is absent, undecodable or a list: the
\* two displays the claim names are as it says
C12_ListOrUndecodable ==
    ((EventResolved \/ MarketResolved)
        /\ \A i \in 1..Len(RenderedMarkets) : ~TokenFieldUnsized(RenderedMarkets[i])) =>
        /\ ret.kind = "return"
        /\ \A i \in 1..Len(RenderedMarkets) : TokenFieldShown(RenderedMarkets[i])

\* the positions in the output of the 'Market ID' lines of the event report
RECURSIVE MarketIdLinesFrom(_)
MarketIdLinesFrom(i) ==
    IF i > Len(out) THEN <<>>
    ELSE (IF StartsWith(out[i], 1, "   |- Market ID: ") THEN <<i>> ELSE <<>>)
             \o MarketIdLinesFrom(i + 1)

\* the label of a market in the event report
CandidateLabel(m) ==
    IF "groupItemTitle" \in DOMAIN m.d THEN m.d["groupItemTitle"].s
    ELSE "Unknown Candidate"

\* the blocks of the event report are those of the markets ms, in order,
\* numbered from 1
BlocksAre(ms) ==
    LET at == MarketIdLinesFrom(1)
    IN  /\ Len(at) = Len(ms)
        /\ \A j \in 1..Len(ms) :
               /\ out[at[j]] = "   |- Market ID: " \o ms[j].d["id"].s
               /\ at[j] > 1
               /\ out[at[j] - 1] = NatToStr(j) \o ". " \o CandidateLabel(ms[j])

\* C13: display_event_info renders exactly the markets of the event whose
\* active flag is set, each once, in the order of the market collection,
\* numbered 1..n; a market that is inactive or has no active flag is not
\* rendered, and a market without a grouping title is labelled
\* 'Unknown Candidate'.
C13_ActiveMarketsRendered == EventResolved => BlocksAre(FlaggedActive(fetched))

\* C13 for the reports that display_event_info completed
C13_WhenReportCompletes ==
    (EventResolved /\ ret.kind = "return") => BlocksAre(FlaggedActive(fetched))

\* the field k of m decodes to a list of fewer than two elements
ShortList(m, k) == DecodesToList(m, k) /\ Len(DecodedList(m, k)) < 2

\* what is printed for the field k: its raw string, or the list it decodes
\* to in the notation of Python
Display14(m, k, decoded) ==
    IF decoded THEN PyStr([t |-> "list", v |-> DecodedList(m, k)]) ELSE m.d[k].s

\* the formatter reaches the token field of the j-th rendered market: it
\* has not raised on the token field of an earlier one
TokenFieldReached(j) == \A i \in 1..(j - 1) : ~TokenFieldUnsized(RenderedMarkets[i])

\* the line of the token field of the j-th rendered market: the fifth line
\* after its 'Market ID' line in the event report, a line of its own in the
\* market report
TokenLineIs(j, l) ==
    IF EventResolved
    THEN LET at == MarketIdLinesFrom(1)
         IN  /\ j <= Len(at)
             /\ at[j] + 5 <= Len(out)
             /\ out[at[j] + 5] = l
    ELSE HasLine(l)

\* a token field holding a short list is shown raw or decoded
ShortTokenListsShown(decoded) ==
    \A j \in 1..Len(RenderedMarkets) :
        (ShortList(RenderedMarkets[j], "clobTokenIds") /\ TokenFieldReached(j)) =>
            TokenLineIs(j, Indent \o "+- Token IDs: "
                               \o Display14(RenderedMarkets[j], "clobTokenIds", decoded))

\* the market report reaches the outcome and price fields, both decode to
\* lists and one of the lists has fewer than two elements
ShortOutcomesOrPrices ==
    /\ MarketResolved
    /\ ~TokenFieldUnsized(fetched)
    /\ DecodesToList(fetched, "outcomes")
    /\ DecodesToList(fetched, "outcomePrices")
    /\ (Len(DecodedList(fetched, "outcomes")) < 2
           \/ Len(DecodedList(fetched, "outcomePrices")) < 2)

ShortOutcomesShown(decoded) ==
    ShortOutcomesOrPrices =>
        /\ HasLine("|- Outcomes: " \o Display14(fetched, "outcomes", decoded))
        /\ HasLine("+- Prices: " \o Display14(fetched, "outcomePrices", decoded))

C14_EventWitness ==
    /\ EventResolved
    /\ Len(RenderedMarkets) = 2
    /\ ShortList(RenderedMarkets[2], "clobTokenIds")
    /\ TokenLineIs(2, "   +- Token IDs: ['111']")

\* the token-id resolver returned a market
TokenLookupSucceeded == op = "token_id" /\ fetched.t = "dict"

\* the queried token is at position i (counted from 0) of the decoded pair
TokenAt(i) ==
    /\ DecodesToList(fetched, "clobTokenIds")
    /\ Len(DecodedList(fetched, "clobTokenIds")) >= 2
    /\ DecodedList(fetched, "clobTokenIds")[i + 1] = arg

YesLine == "+- This token represents the 'Yes' outcome"

NoLine == "+- This token represents the 'No' outcome"

GenericLine == "+- Token ID matched this market"

\* the report ends with the match line l followed by the success banner
EndsWithMatchAndBanner(l) ==
    /\ Len(out) >= 4
    /\ out[Len(out) - 3] = l
    /\ out[Len(out) - 2] = "\n" \o Rule
    /\ out[Len(out) - 1] = "Lookup complete!"
    /\ out[Len(out)] = Rule

\* the outcome the command reports, with the banner after it
MatchReported ==
    /\ HasLine(YesLine) <=> TokenAt(0)
    /\ HasLine(NoLine) <=> (TokenAt(1) /\ ~TokenAt(0))
    /\ HasLine(GenericLine) <=> (~TokenAt(0) /\ ~TokenAt(1))
    /\ EndsWithMatchAndBanner(IF TokenAt(0) THEN YesLine
                              ELSE IF TokenAt(1) THEN NoLine ELSE GenericLine)
    /\ ret.kind = "return"

\* C15: after a successful token-id lookup the command reports 'Yes' exactly
\* when the queried token is position 0 of the decoded pair, 'No' exactly
\* when it is position 1 and not position 0, and a generic match line when
\* the pair cannot be decoded, has fewer than two elements or holds the
\* token at neither position; the success banner follows in every case.
C15_MatchThenBanner == TokenLookupSucceeded => MatchReported

\* C15 for the markets whose token field is absent, undecodable or a list
C15_WhenFieldIsListOrUndecodable ==
    (TokenLookupSucceeded /\ ~TokenFieldUnsized(fetched)) => MatchReported

\* the queried token is named at both positions and is reported as 'Yes'
C15_YesBeforeNo ==
    /\ TokenLookupSucceeded
    /\ TokenAt(0)
    /\ TokenAt(1)
    /\ HasLine(YesLine)
    /\ ~HasLine(NoLine)

====
